---- MODULE Spec2Model ----
(***************************************************************************)
(* Model of the vector-backed semantic retrieval subsystem:                *)
(*   src/vector_store.py and its twin                                      *)
(*   src/clean_app/backend/app/services/vector_store.py (VectorStore),     *)
(*   src/backend/app/utils/embeddings.py (generate_embedding),             *)
(*   src/backend/app/services/problem_service.py (create), and the API     *)
(*   layer on top of the store: get_live_problems of src/rag_server.py     *)
(*   and of src/clean_app/app/server.py.                                   *)
(*                                                                         *)
(* Numbers.  Embedding components are fixed-point numbers in fifths: the   *)
(* vector written <<3, 4, 0, ...>> is (0.6, 0.8, 0, ...), a unit vector.   *)
(* Dot products and squared distances are therefore in units of 1/25, and  *)
(* the number 1 of "1 - distance" is 25 in those units.                    *)
(***************************************************************************)
EXTENDS Integers, Sequences, FiniteSets, TLC

\* ------------------------------------------------------------------ bounds
MaxBatch == 2      \* documents of one add_documents call
MaxDocs  == 3      \* documents a collection holds
MaxProblems == 2   \* rows of the "problems" table
MaxCallers == 3    \* threads inside generate_embedding
MaxRuns == 3       \* collection cycles
MaxUsers == 3      \* users of the solutions endpoints
MaxFetched == 2    \* rows of the "fetched_problems" table

\* ------------------------------------------------------- program constants
ModelDim    == 384   \* dimensionality of all-MiniLM-L6-v2, the default model
FallbackDim == 384   \* [[0.0] * 384] * len(texts)
SampleLimit == 1000  \* collection.get(limit=1000) of get_all_categories
DefaultLimit == 20   \* limit: Optional[int] = Query(20, ...)
BrowseCap    == 100  \* limit if limit <= 100 else 1000; min(100, len(...))
BrowseAll    == 1000
TitleCap       == 500  \* doc['title'][:500]
DescriptionCap == 500  \* doc.get('description', '')[:500]
EmbedDescCap   == 200  \* doc.get('description', '')[:200] in the embedding text

\* "1" in the fixed-point units of a squared distance
One == 5 * 5

\* None, and a key that a dict does not have
None   == "None"
Absent == "Absent"

\* ----------------------------------------------------------------- vectors
\* A vector is written as its length and its leading components; every
\* component after the leading ones is 0.  Vec(3, 4, 384) is the list of 384
\* floats [0.6, 0.8, 0.0, ..., 0.0].
HeadLen(n)   == IF n < 2 THEN n ELSE 2
Vec(x, y, n) == [dim |-> n, head |-> SubSeq(<<x, y>>, 1, HeadLen(n))]
ZeroVec(n)   == Vec(0, 0, n)
Dim(v)       == v.dim

RECURSIVE SumTo(_, _)
SumTo(f, n) == IF n = 0 THEN 0 ELSE f[n] + SumTo(f, n - 1)

\* u . v, for vectors of one length
Dot(u, v) == SumTo([i \in 1..Len(u.head) |-> u.head[i] * v.head[i]], Len(u.head))

\* The texts the model knows, and the unit vector the embedding model gives
\* each of them (encode is a deterministic function of the text).
Min(a, b) == IF a < b THEN a ELSE b

\* text[:n]
Slice(text, n) == SubSeq(text, 1, Min(n, Len(text)))

\* The tokenizer of the model drops the white space at the end of a text.
RECURSIVE Strip(_)
Strip(text) ==
  IF Len(text) > 0 /\ SubSeq(text, Len(text), Len(text)) = " "
    THEN Strip(SubSeq(text, 1, Len(text) - 1))
    ELSE text

\* n copies of a text, one after the other
RECURSIVE Rep(_, _)
Rep(text, n) ==
  IF n = 0 THEN ""
  ELSE IF n % 2 = 0 THEN LET half == Rep(text, n \div 2) IN half \o half
  ELSE text \o Rep(text, n - 1)

\* Any other text gets a unit vector of its own: the vector carries the text
\* it was computed from, which keeps the embeddings of different texts apart.
EncodeOther(text) == [dim |-> ModelDim, head |-> <<0, 5>>, text |-> text]

Texts == {"react", "postgres", "docker"}
EncodeKnown(text) ==
  CASE text = "react"    -> Vec(3, 4, ModelDim)
    [] text = "postgres" -> Vec(-3, 4, ModelDim)
    [] text = "docker"   -> Vec(5, 0, ModelDim)
    [] text = "software bug error crash"      -> Vec(4, 3, ModelDim)
    [] text = "install setup configuration"   -> Vec(0, 5, ModelDim)
    [] text = "performance slow optimization" -> Vec(-4, 3, ModelDim)
    [] text = "database connection issue"     -> Vec(-3, 4, ModelDim)
    [] text = "web development problem"       -> Vec(3, 4, ModelDim)
    [] OTHER -> EncodeOther(text)

Encode(text) == EncodeKnown(Strip(text))

\* --------------------------------------------------------------- variables
VARIABLES
  liveGen,   \* the collection the client holds under collection_name: its
             \* identity (0: there is none)
  stored,    \* the records of that collection, in insertion order
  handle,    \* self.collection: the identity of the collection it refers to
  ret,       \* the last call and what it returned
  problems,  \* the rows of the "problems" table, in insertion order
  pc,        \* where each thread of the concurrent runs stands
  adder,     \* locals of the thread in add_documents
  reader,    \* locals of the thread in a reading method
  clearRet,  \* what clear_collection returned to its thread
  writtenTo, \* the collection that received the adder's batch (0: none)
  model,            \* utils/embeddings.py: the global _model (0: None)
  constructed,      \* how many SentenceTransformer instances were built
  mpc,              \* where each thread in generate_embedding stands
  cached,           \* the instance _get_model returned to each thread
  processing_lock,  \* EnhancedRAGService.processing_lock: its holder
  task,             \* where each invocation of _collect_and_process_data stands
  running,          \* the coroutine the event loop is executing
  is_running,       \* EnhancedRAGService.is_running
  runs,             \* completed collection cycles
  fetched_problems, \* the rows of "fetched_problems", by id
  solutions,        \* the rows of "solutions"
  response          \* the last answer of the solutions endpoints

seq  == <<ret, problems>>
conc == <<pc, adder, reader, clearRet, writtenTo>>
store == <<liveGen, stored, handle, seq, conc>>
embed == <<model, constructed, mpc, cached>>
rag  == <<processing_lock, task, running, is_running, runs>>
db   == <<fetched_problems, solutions, response>>
backend == <<embed, rag, db>>
vars == <<liveGen, stored, handle, ret, problems, pc, adder, reader, clearRet,
          writtenTo, model, constructed, mpc, cached, processing_lock, task,
          running, is_running, runs, fetched_problems, solutions, response>>

\* ------------------------------------------------------- input documents
\* What the ingestion pipeline hands over: the two sample documents, and a
\* document dict that lacks the "title" key.
DocInputs ==
  { [title |-> "react",    category |-> "Web Development"],
    [title |-> "postgres", category |-> "Database"],
    [title |-> Absent,     category |-> "Database"] }

Batches == UNION { [1..n -> DocInputs] : n \in 0..MaxBatch }

\* ------------------------------------------- the client's collection calls
\* A handle works while the collection it was obtained for still exists.
Live(h) == h # 0 /\ h = liveGen

\* collection.count()
Count(h) == IF Live(h) THEN Len(stored) ELSE -1

\* Every embedding of one collection has the dimension of its first one.
SameDim(recs) ==
  \A i \in 1..Len(recs) :
    Dim(recs[i].embedding) =
      (IF stored # <<>> THEN Dim(stored[1].embedding) ELSE Dim(recs[1].embedding))

\* collection.add(ids, embeddings, metadatas, documents): the batch is
\* validated as a whole and appended as a whole, or the call raises.
\* A client whose add does not notice that the collection is gone.
AddRaises_IgnoresDeleted(h, recs, fault) == fault \/ ~SameDim(recs)

AddRaises(h, recs, fault) == ~Live(h) \/ fault \/ ~SameDim(recs)
\* mutant: the records are added one at a time, and a failure keeps the first
AfterAdd_Partial(h, recs, fault) ==
  IF ~Live(h) \/ ~SameDim(recs) THEN stored
  ELSE IF fault THEN stored \o SubSeq(recs, 1, 1)
  ELSE stored \o recs

\* mutant: the add re-embeds what is already stored with its first vector
AfterAdd_Reembeds(h, recs, fault) ==
  IF AddRaises(h, recs, fault) THEN stored
  ELSE [i \in 1..Len(stored) |->
          [stored[i] EXCEPT !.embedding = recs[1].embedding]] \o recs

AfterAdd(h, recs, fault) ==
  IF AddRaises(h, recs, fault) THEN stored ELSE stored \o recs

\* ------------------------------------------------------------- embeddings
\* VectorStore.generate_embeddings
generate_embeddings(texts, modelFails) ==
  IF modelFails
    THEN [i \in 1..Len(texts) |-> ZeroVec(FallbackDim)]
    ELSE [i \in 1..Len(texts) |-> Encode(texts[i])]

\* ---------------------------------------------------------- add_documents
\* doc['title'] raises KeyError for a document without the key
\* doc.get(key, default): a dict lacks a key when the record has no such field
\* or holds Absent there
DictGet(doc, key, default) ==
  IF key \in DOMAIN doc /\ doc[key] # Absent THEN doc[key] ELSE default

\* doc['title'] raises KeyError for a document without the key, and
\* doc.get('description', '')[:200] raises TypeError for a null description
PrepareRaises(batch) ==
  \E i \in 1..Len(batch) :
    \/ batch[i].title = Absent
    \/ DictGet(batch[i], "description", "") = None

\* mutant: the embedding text is built from the title as it is stored
embedding_text_Truncated(doc) ==
  Slice(doc.title, TitleCap) \o " " \o DictGet(doc, "ai_problem_statement", "")
    \o " " \o Slice(DictGet(doc, "description", ""), EmbedDescCap)

\* f"{doc['title']} {doc.get('ai_problem_statement', '')}
\*    {doc.get('description', '')[:200]}"; a null summary prints as "None"
embedding_text(doc) ==
  doc.title \o " " \o DictGet(doc, "ai_problem_statement", "")
    \o " " \o Slice(DictGet(doc, "description", ""), EmbedDescCap)

\* doc.get('ai_problem_statement', doc['title'])
display_text(doc) == DictGet(doc, "ai_problem_statement", doc.title)

Metadata(doc) ==
  [title       |-> Slice(doc.title, TitleCap),
   subreddit   |-> DictGet(doc, "subreddit", ""),
   category    |-> DictGet(doc, "category", "General Tech"),
   description |-> Slice(DictGet(doc, "description", ""), DescriptionCap)]

\* str(uuid.uuid4()): an id that no stored record has.  The i-th id drawn by
\* one call is the i-th number above the inUse ids of the stored records.
\* mutant: the id is the position of the document in its batch
uuid4_BatchPosition(inUse, i) == i

uuid4(inUse, i) == inUse + i

\* the locals of the threads before they start
Threads   == {"add", "clear", "read"}
IdlePc    == [t \in Threads |-> "idle"]
NoAdder   == [recs |-> <<>>, h |-> 0, ret |-> "none"]
NoReader  == [op |-> "none", query |-> "none", phase |-> 0, h |-> 0,
              results |-> <<>>, categories |-> {}, total |-> 0,
              error |-> FALSE]

\* ids, embeddings, metadatas and documents_texts, one record per document
PreparedAt(batch, modelFails, inUse) ==
  LET embeddings ==
        generate_embeddings([i \in 1..Len(batch) |-> embedding_text(batch[i])],
                            modelFails)
  IN  [i \in 1..Len(batch) |->
         [id        |-> uuid4(inUse, i),
          embedding |-> embeddings[i],
          metadata  |-> Metadata(batch[i]),
          document  |-> display_text(batch[i])]]

Prepared(batch, modelFails) == PreparedAt(batch, modelFails, Len(stored))

NoRet == [op |-> "init", ok |-> TRUE, out |-> <<>>, q |-> ZeroVec(0), k |-> 0,
          filter |-> None]

AddReturns(batch, modelFails, fault) ==
  /\ batch # <<>>
  /\ ~PrepareRaises(batch)
  /\ ~AddRaises(handle, Prepared(batch, modelFails), fault)

AddDocuments(batch, modelFails, fault) ==
  /\ Len(stored) + Len(batch) <= MaxDocs
  /\ stored' = IF batch # <<>> /\ ~PrepareRaises(batch)
                 THEN AfterAdd(handle, Prepared(batch, modelFails), fault)
                 ELSE stored
  /\ ret' = [NoRet EXCEPT !.op = "add",
                          !.ok = AddReturns(batch, modelFails, fault),
                          !.k  = Len(batch)]
  /\ UNCHANGED <<liveGen, handle, problems>>
  /\ UNCHANGED <<conc, backend>>

\* ---------------------------------------------------------- search_similar
\* The collection is created without "hnsw:space", so its distance is the
\* squared Euclidean distance.
Distance(u, v) ==
  SumTo([i \in 1..Len(u.head) |->
           (u.head[i] - v.head[i]) * (u.head[i] - v.head[i])], Len(u.head))

\* mutant: the where clause is not applied
Matches_Unfiltered(rec, where) == TRUE

\* where={"category": c}; None when the clause is empty
Matches(rec, where) == where = None \/ rec.metadata.category = where

MatchingIdx(where) == { i \in 1..Len(stored) : Matches(stored[i], where) }

\* mutant: the candidates are taken in insertion order, not by distance
Nearest_Unranked(q, cand) == CHOOSE i \in cand : \A j \in cand : i <= j

\* the nearest of the candidates, the earliest inserted among equals
Nearest(q, cand) ==
  CHOOSE i \in cand :
    \A j \in cand :
      \/ Distance(q, stored[i].embedding) < Distance(q, stored[j].embedding)
      \/ /\ Distance(q, stored[i].embedding) = Distance(q, stored[j].embedding)
         /\ i <= j

RECURSIVE TopK(_, _, _)
TopK(q, k, cand) ==
  IF k = 0 \/ cand = {}
    THEN <<>>
    ELSE LET i == Nearest(q, cand)
         IN  <<i>> \o TopK(q, k - 1, cand \ {i})

\* collection.query(query_embeddings=[q], n_results=k, where=...)
QueryRaises(h, q, k) ==
  \/ ~Live(h)
  \/ k <= 0
  \/ stored # <<>> /\ Dim(q) # Dim(stored[1].embedding)

Query(q, k, where) == TopK(q, k, MatchingIdx(where))

\* mutant: the category filter never reaches the where clause
WhereClause_Dropped(category_filter) == None

\* mutant: only None and "All" mean no filter, "" is matched as a category
WhereClause_EmptyIsCategory(category_filter) ==
  IF category_filter # None /\ category_filter # "All"
    THEN category_filter
    ELSE None

WhereClause(category_filter) ==
  IF category_filter # None /\ category_filter # "" /\ category_filter # "All"
    THEN category_filter
    ELSE None

FormatResult(q, i) ==
  [id               |-> stored[i].id,
   category         |-> stored[i].metadata.category,
   subreddit        |-> stored[i].metadata.subreddit,
   similarity_score |-> One - Distance(q, stored[i].embedding)]

\* results['metadatas'][0][i]['category'] raises KeyError for a record stored
\* without the key (a null metadata value is stored as no value)
FormatRaises(hits) ==
  \E n \in 1..Len(hits) : stored[hits[n]].metadata.category = None

search_similar(h, q, k, category_filter) ==
  IF QueryRaises(h, q, k)
    THEN <<>>
    ELSE LET hits == Query(q, k, WhereClause(category_filter))
         IN  IF FormatRaises(hits)
               THEN <<>>
               ELSE [n \in 1..Len(hits) |-> FormatResult(q, hits[n])]

\* A read call changes nothing stored, so what it returns after other reads
\* is what it returns right after the last writing call: reads are taken
\* there.
ReadOps    == {"search", "rag_live", "clean_live", "get_all", "categories",
               "stats"}
AfterWrite == ret.op \notin ReadOps

Filters == {None, "All", "Database", "Web Development"}

SearchSimilar(query, k, category_filter, modelFails) ==
  /\ AfterWrite
  /\ LET q == generate_embeddings(<<query>>, modelFails)[1]
     IN  ret' = [NoRet EXCEPT !.op = "search",
                              !.out = search_similar(handle, q, k, category_filter),
                              !.q = q, !.k = k, !.filter = category_filter]
  /\ UNCHANGED <<liveGen, stored, handle, problems>>
  /\ UNCHANGED <<conc, backend>>

\* ------------------------------------------------------- clear_collection
\* The identity of a newly created collection: one that no handle refers to.
NewCollection(held) == CHOOSE g \in 1..(Cardinality(held) + 1) : g \notin held

\* faultAt: where the persistence layer fails during this call, if anywhere
DeleteRaises(faultAt) == liveGen = 0 \/ faultAt = "delete"
CreateRaises(faultAt) == faultAt = "create"

ClearCollection(faultAt) ==
  /\ UNCHANGED <<problems, conc, backend>>
  /\ IF DeleteRaises(faultAt)
       THEN /\ ret' = [NoRet EXCEPT !.op = "clear", !.ok = FALSE]
            /\ UNCHANGED <<liveGen, stored, handle>>
       ELSE IF CreateRaises(faultAt)
         THEN /\ liveGen' = 0
              /\ stored'  = <<>>
              /\ ret' = [NoRet EXCEPT !.op = "clear", !.ok = FALSE]
              /\ UNCHANGED handle
         ELSE /\ liveGen' = NewCollection({handle})
              /\ handle'  = NewCollection({handle})
              /\ stored'  = <<>>
              /\ ret' = [NoRet EXCEPT !.op = "clear", !.ok = TRUE]

\* ------------------------------------------- problem_service.create
\* utils.embeddings.generate_embedding
generate_embedding(text, modelFails) ==
  IF modelFails THEN Vec(0, 0, 0) ELSE Encode(text)

LABELS == {"Software", "Hardware", "Other"}

\* create(db, data): the embedding of the text goes into the row as JSON; the
\* category is the label the classifier of ai_service picks (any of LABELS).
CreateProblem(text, modelFails, ai_category) ==
  /\ Len(problems) < MaxProblems
  /\ LET emb_vec == generate_embedding(text, modelFails)
     IN  /\ problems' = Append(problems,
                          [id        |-> Len(problems) + 1,
                           title     |-> text,
                           category  |-> ai_category,
                           embedding |-> emb_vec])
         /\ ret' = [NoRet EXCEPT !.op = "create", !.q = emb_vec]
  /\ UNCHANGED <<liveGen, stored, handle>>
  /\ UNCHANGED <<conc, backend>>

\* ------------------------------------------- get_all_categories, get_stats
\* get_all_categories: the categories of the first SampleLimit records, or
\* ["General Tech"] when collection.get raises.  The sorted list of distinct
\* values is written as their set.
\* `if 'category' in metadata`: a record stored without the key adds nothing.
get_all_categories(h) ==
  IF ~Live(h)
    THEN {"General Tech"}
    ELSE {stored[i].metadata.category : i \in 1..Min(SampleLimit, Len(stored))}
           \ {None}

\* get_stats: collection.count(), then get_all_categories(); when count()
\* raises, {"total_documents": 0, "categories": [], "error": ...}
get_stats(h) ==
  IF ~Live(h)
    THEN [total_documents |-> 0, categories |-> {}, error |-> TRUE]
    ELSE [total_documents |-> Count(h),
          categories      |-> get_all_categories(h),
          error           |-> FALSE]

\* --------------------------------------------------- get_all_documents
\* (src/clean_app/backend/app/services/vector_store.py)
\* str.lower() on the subreddit names of the model
Lower(str) ==
  CASE str = "UXDesign"   -> "uxdesign"
    [] str = "PostgreSQL" -> "postgresql"
    [] OTHER              -> str

\* the allow-set of get_all_documents, written with capitals as in the source
tech_subreddits ==
  {"learnprogramming", "webdev", "sysadmin", "techsupport", "softwaregore",
   "UXDesign", "userexperience", "SaaS", "SideProject", "startups",
   "indianstartups", "Entrepreneur", "Notion", "ObsidianMD", "trello",
   "Futurology", "productivity"}

\* the elements of a set of record positions, ascending
RECURSIVE Ascending(_)
Ascending(S) ==
  IF S = {} THEN <<>>
  ELSE LET m == CHOOSE i \in S : \A j \in S : i <= j
       IN  <<m>> \o Ascending(S \ {m})

\* collection.get(limit=..., where=...): the matching records in insertion
\* order, the first `limit` of them.  A negative limit raises.  limit = 0
\* reads as "no limit" in clients that write `limit or <max>` and as "none" in
\* the others (zeroIsAll).
GetRaises(h, limit) == ~Live(h) \/ limit < 0

Get(limit, where, zeroIsAll) ==
  LET m == Ascending(MatchingIdx(where))
  IN  SubSeq(m, 1, IF limit = 0
                     THEN (IF zeroIsAll THEN Len(m) ELSE 0)
                     ELSE Min(limit, Len(m)))

\* one document of the browse list; "similarity_score": 1.0
BrowseResult(i) ==
  [id               |-> stored[i].id,
   category         |-> IF stored[i].metadata.category = None
                          THEN "General Tech"
                          ELSE stored[i].metadata.category,
   subreddit        |-> stored[i].metadata.subreddit,
   similarity_score |-> One]

\* `if tech_only and subreddit not in tech_subreddits: continue`
TechKept(i, tech_only) ==
  ~tech_only \/ Lower(stored[i].metadata.subreddit) \in tech_subreddits

get_all_documents(h, limit, category_filter, tech_only, zeroIsAll) ==
  IF GetRaises(h, limit)
    THEN <<>>
    ELSE LET got  == Get(limit, WhereClause(category_filter), zeroIsAll)
             kept == SelectSeq(got, LAMBDA i : TechKept(i, tech_only))
         IN  [n \in 1..Len(kept) |-> BrowseResult(kept[n])]

\* =========================================================================
\* The API layer: get_live_problems of src/rag_server.py (RagLive) and of
\* src/clean_app/app/server.py (CleanLive), both on the module-level
\* vector_store.
\* =========================================================================

\* `if query:` is false for None and for ""
Truthy(str) == str # None /\ str # ""

\* "Organize by category": each result is appended to the list of its category
RECURSIVE Organize(_, _)
RECURSIVE Organize_KeepsLast(_, _)
\* mutant: a category keeps only its latest result
Organize_KeepsLast(results, categories) ==
  IF results = <<>> THEN categories
  ELSE LET result == Head(results)
           cat    == result.category
       IN  Organize_KeepsLast(Tail(results),
             IF cat \notin DOMAIN categories
               THEN categories @@ (cat :> <<result>>)
               ELSE [categories EXCEPT ![cat] = <<result>>])

Organize(results, categories) ==
  IF results = <<>> THEN categories
  ELSE LET result == Head(results)
           cat    == result.category
       IN  Organize(Tail(results),
             IF cat \notin DOMAIN categories
               THEN categories @@ (cat :> <<result>>)
               ELSE [categories EXCEPT ![cat] = Append(@, result)])

sample_queries ==
  << "software bug error crash", "install setup configuration",
     "performance slow optimization", "database connection issue",
     "web development problem" >>

\* all_results: the lists of the sub-queries, one after the other
RECURSIVE SampleResults(_, _, _, _)
SampleResults(n, category, limit, modelFails) ==
  IF n = 0 THEN <<>>
  ELSE SampleResults(n - 1, category, limit, modelFails)
       \o search_similar(handle,
                         generate_embeddings(<<sample_queries[n]>>, modelFails)[1],
                         (limit \div Len(sample_queries)) + 2,
                         category)

\* "Remove duplicates by ID and limit": the loop over all_results, which
\* tests the length after it has appended
RECURSIVE Unique(_, _, _, _)
Unique(all_results, seen_ids, unique_results, limit) ==
  IF all_results = <<>> THEN unique_results
  ELSE LET result == Head(all_results)
       IN  IF result.id \in seen_ids
             THEN Unique(Tail(all_results), seen_ids, unique_results, limit)
             ELSE IF Len(unique_results) + 1 >= limit
               THEN Append(unique_results, result)
               ELSE Unique(Tail(all_results), seen_ids \cup {result.id},
                           Append(unique_results, result), limit)

Response(results, search_type) ==
  [status      |-> "success",
   data        |-> Organize(results, <<>>),
   total_found |-> Len(results),
   search_type |-> search_type,
   results     |-> results]

\* src/rag_server.py
rag_get_live_problems(query, category, limit, modelFails) ==
  IF Truthy(query)
    THEN Response(search_similar(handle,
                                 generate_embeddings(<<query>>, modelFails)[1],
                                 limit, category),
                  "semantic")
    ELSE Response(Unique(SampleResults(Len(sample_queries), category, limit,
                                       modelFails),
                         {}, <<>>, limit),
                  "sample")

\* the allow-set of the server's own tech filter, all lower case
server_tech_subreddits ==
  {"learnprogramming", "webdev", "sysadmin", "techsupport", "softwaregore",
   "uxdesign", "userexperience", "saas", "sideproject", "startups",
   "indianstartups", "entrepreneur", "notion", "obsidianmd", "trello",
   "futurology", "productivity"}

\* src/clean_app/app/server.py
clean_get_live_problems(query, category, limit, tech_only, modelFails, zeroIsAll) ==
  IF Truthy(query)
    THEN LET results == search_similar(handle,
                          generate_embeddings(<<query>>, modelFails)[1],
                          limit, category)
         IN  Response(IF tech_only
                        THEN SelectSeq(results,
                               LAMBDA r : Lower(r.subreddit)
                                            \in server_tech_subreddits)
                        ELSE results,
                      "semantic")
    ELSE LET all_results ==
               get_all_documents(handle,
                                 IF limit <= BrowseCap THEN limit ELSE BrowseAll,
                                 category, tech_only, zeroIsAll)
         IN  Response(IF limit = DefaultLimit
                        THEN SubSeq(all_results, 1,
                                    Min(BrowseCap, Len(all_results)))
                        ELSE all_results,
                      "browse_all")

\* ------------------------------------------------- the reading calls
RagLive(query, category, limit, modelFails) ==
  /\ AfterWrite
  /\ ret' = [op |-> "rag_live", query |-> query, category |-> category,
             limit |-> limit, modelFails |-> modelFails,
             resp |-> rag_get_live_problems(query, category, limit, modelFails)]
  /\ UNCHANGED <<liveGen, stored, handle, problems>>
  /\ UNCHANGED <<conc, backend>>

CleanLive(query, category, limit, tech_only, modelFails, zeroIsAll) ==
  /\ AfterWrite
  /\ ret' = [op |-> "clean_live", query |-> query, category |-> category,
             limit |-> limit, tech_only |-> tech_only,
             modelFails |-> modelFails, zeroIsAll |-> zeroIsAll,
             resp |-> clean_get_live_problems(query, category, limit,
                                              tech_only, modelFails, zeroIsAll)]
  /\ UNCHANGED <<liveGen, stored, handle, problems>>
  /\ UNCHANGED <<conc, backend>>

GetAllDocuments(limit, category_filter, tech_only, zeroIsAll) ==
  /\ AfterWrite
  /\ ret' = [op |-> "get_all", limit |-> limit, filter |-> category_filter,
             tech_only |-> tech_only, zeroIsAll |-> zeroIsAll,
             out |-> get_all_documents(handle, limit, category_filter,
                                       tech_only, zeroIsAll)]
  /\ UNCHANGED <<liveGen, stored, handle, problems>>
  /\ UNCHANGED <<conc, backend>>

GetAllCategories ==
  /\ AfterWrite
  /\ ret' = [op |-> "categories", out |-> get_all_categories(handle)]
  /\ UNCHANGED <<liveGen, stored, handle, problems>>
  /\ UNCHANGED <<conc, backend>>

GetStats ==
  /\ AfterWrite
  /\ ret' = [op |-> "stats", out |-> get_stats(handle)]
  /\ UNCHANGED <<liveGen, stored, handle, problems>>
  /\ UNCHANGED <<conc, backend>>

\* =========================================================================
\* Concurrent runs.  The methods take no lock; threads of one process (the
\* server answers requests from a thread pool) share one VectorStore.  Each
\* step below is one call into the client or the part of a method between two
\* such calls.  `self.collection.f(...)` first loads self.collection and then
\* calls f on what it loaded.
\* =========================================================================

\* The collection a call on the loaded object h acts on.  The source pins no
\* client version: a collection object is bound either to the collection it was
\* obtained for (a call on it raises once that collection is deleted) or to
\* the collection name (a call acts on whatever collection has the name now).
Resolve(h, byName) == IF byName THEN liveGen ELSE h

\* --- the thread in add_documents(batch)
AddStart(batch, modelFails) ==
  /\ pc["add"] = "idle"
  /\ Len(stored) + Len(batch) <= MaxDocs
  /\ IF batch = <<>> \/ PrepareRaises(batch)
       THEN /\ adder' = [adder EXCEPT !.ret = FALSE]
            /\ pc' = [pc EXCEPT !["add"] = "done"]
       ELSE /\ adder' = [adder EXCEPT !.recs = Prepared(batch, modelFails)]
            /\ pc' = [pc EXCEPT !["add"] = "load"]
  /\ UNCHANGED <<liveGen, stored, handle, reader, clearRet, writtenTo>>
  /\ UNCHANGED <<seq, backend>>

AddLoad ==
  /\ pc["add"] = "load"
  /\ adder' = [adder EXCEPT !.h = handle]
  /\ pc' = [pc EXCEPT !["add"] = "call"]
  /\ UNCHANGED <<liveGen, stored, handle, reader, clearRet, writtenTo>>
  /\ UNCHANGED <<seq, backend>>

AddCall(fault, byName) ==
  /\ pc["add"] = "call"
  /\ stored' = AfterAdd(Resolve(adder.h, byName), adder.recs, fault)
  /\ adder' = [adder EXCEPT !.ret =
                 ~AddRaises(Resolve(adder.h, byName), adder.recs, fault)]
  /\ writtenTo' = IF stored' # stored THEN liveGen ELSE writtenTo
  /\ pc' = [pc EXCEPT !["add"] = "done"]
  /\ UNCHANGED <<liveGen, handle, reader, clearRet>>
  /\ UNCHANGED <<seq, backend>>

\* --- the thread in clear_collection()
ClearDelete(fault) ==
  /\ pc["clear"] = "idle"
  /\ IF DeleteRaises(IF fault THEN "delete" ELSE "none")
       THEN /\ clearRet' = FALSE
            /\ pc' = [pc EXCEPT !["clear"] = "done"]
            /\ UNCHANGED <<liveGen, stored>>
       ELSE /\ liveGen' = 0
            /\ stored'  = <<>>
            /\ pc' = [pc EXCEPT !["clear"] = "create"]
            /\ UNCHANGED clearRet
  /\ UNCHANGED <<handle, adder, reader, writtenTo>>
  /\ UNCHANGED <<seq, backend>>

ClearCreate(fault) ==
  /\ pc["clear"] = "create"
  /\ IF CreateRaises(IF fault THEN "create" ELSE "none")
       THEN /\ clearRet' = FALSE
            /\ UNCHANGED <<liveGen, handle>>
       ELSE /\ liveGen' = NewCollection({handle, adder.h, reader.h})
            /\ handle'  = NewCollection({handle, adder.h, reader.h})
            /\ clearRet' = TRUE
  /\ pc' = [pc EXCEPT !["clear"] = "done"]
  /\ UNCHANGED <<stored, adder, reader, writtenTo>>
  /\ UNCHANGED <<seq, backend>>

\* --- the thread in a reading method
ReaderOps == {"search", "categories", "stats"}

ReadStart(op, query) ==
  /\ pc["read"] = "idle"
  /\ reader' = [NoReader EXCEPT !.op = op, !.query = query, !.phase = 1]
  /\ pc' = [pc EXCEPT !["read"] = "load"]
  /\ UNCHANGED <<liveGen, stored, handle, adder, clearRet, writtenTo>>
  /\ UNCHANGED <<seq, backend>>

ReadLoad ==
  /\ pc["read"] = "load"
  /\ reader' = [reader EXCEPT !.h = handle]
  /\ pc' = [pc EXCEPT !["read"] = "call"]
  /\ UNCHANGED <<liveGen, stored, handle, adder, clearRet, writtenTo>>
  /\ UNCHANGED <<seq, backend>>

\* search_similar(query, n_results=MaxDocs): collection.query
ReadQuery(byName) ==
  /\ pc["read"] = "call" /\ reader.op = "search"
  /\ reader' = [reader EXCEPT !.results =
                  search_similar(Resolve(reader.h, byName),
                                 generate_embeddings(<<reader.query>>, FALSE)[1],
                                 MaxDocs, None)]
  /\ pc' = [pc EXCEPT !["read"] = "done"]
  /\ UNCHANGED <<liveGen, stored, handle, adder, clearRet, writtenTo>>
  /\ UNCHANGED <<seq, backend>>

\* get_all_categories(), called directly or as the second call of get_stats
ReadGet(byName) ==
  /\ pc["read"] = "call"
  /\ reader.op = "categories" \/ (reader.op = "stats" /\ reader.phase = 2)
  /\ reader' = [reader EXCEPT !.categories =
                  get_all_categories(Resolve(reader.h, byName))]
  /\ pc' = [pc EXCEPT !["read"] = "done"]
  /\ UNCHANGED <<liveGen, stored, handle, adder, clearRet, writtenTo>>
  /\ UNCHANGED <<seq, backend>>

\* get_stats(): collection.count(), then get_all_categories(); when count()
\* raises it returns {"total_documents": 0, "categories": [], "error": ...}
ReadCount(byName) ==
  /\ pc["read"] = "call" /\ reader.op = "stats" /\ reader.phase = 1
  /\ IF ~Live(Resolve(reader.h, byName))
       THEN /\ reader' = [reader EXCEPT !.error = TRUE]
            /\ pc' = [pc EXCEPT !["read"] = "done"]
       ELSE /\ reader' = [reader EXCEPT !.total = Count(Resolve(reader.h, byName)),
                                        !.phase = 2]
            /\ pc' = [pc EXCEPT !["read"] = "load"]
  /\ UNCHANGED <<liveGen, stored, handle, adder, clearRet, writtenTo>>
  /\ UNCHANGED <<seq, backend>>

\* ------------------------------------------------- backend: the model
\* utils/embeddings.py.  The endpoints that reach generate_embedding are
\* plain "def" functions, which the server runs on the threads of its pool,
\* so several calls can be inside _get_model at once; nothing there takes a
\* lock.
Callers == 1..MaxCallers

NoCached == [t \in Callers |-> 0]

IdleMpc == [t \in Callers |-> "idle"]

\* "if _model is None"
ModelUnloaded == model = 0

\* ------------------------------------------- backend: the collection cycle
\* Who invokes _collect_and_process_data: start_continuous_pipeline (its
\* initial run), the scheduler's interval job (max_instances=1) and requests
\* to /rag/manual-collection.  All of them are coroutines of one event loop.
Invokers == {"start", "scheduled"} \cup {"manual"}

IdleTask == [t \in Invokers |-> "idle"]

\* Whether an await of the locked section hands control back to the event
\* loop.  None does: comprehensive_real_reddit_fetch is a plain function
\* (and is called without its db argument, so the call raises and
\* _fetch_reddit_data returns []), and generate_problem_statement and
\* predict_category contain no await of their own.
Suspends_AtFetch(point) == point = "fetch"

Suspends(point) == FALSE

\* What _fetch_reddit_data returns.
reddit_problems == <<>>

\* ------------------------------------------------- backend: the database
Users == 1..MaxUsers

FetchedIds == 1..MaxFetched

\* The columns of the ORM class Solution: a solver's id is held in
\* contributor_id; there is no solver_id.
SolutionColumns ==
  {"id", "problem_id", "contributor_id", "title", "description",
   "github_repo", "demo_url", "tech_stack", "implementation_notes", "status",
   "upvotes", "created_at"}

NoResponse == [op |-> "none", user |-> 0, id |-> 0, status |-> 0]

InitBackend ==
  /\ model = 0
  /\ constructed = 0
  /\ mpc = IdleMpc
  /\ cached = NoCached
  /\ processing_lock = None
  /\ task = IdleTask
  /\ running = None
  /\ is_running = FALSE
  /\ runs = 0
  /\ fetched_problems = [p \in FetchedIds |-> [is_claimed |-> FALSE]]
  /\ solutions = {}
  /\ response = NoResponse

\* ------------------------------------------------------------------- Spec
Init ==
  /\ liveGen = 1
  /\ stored  = <<>>
  /\ handle  = 1
  /\ ret     = NoRet
  /\ problems = <<>>
  /\ pc = IdlePc
  /\ adder = NoAdder
  /\ reader = NoReader
  /\ clearRet = "none"
  /\ writtenTo = 0
  /\ InitBackend

\* A writing call does not look at what the last call returned, so the
\* writing calls are taken after writing calls only.
WriteAdd(batch, modelFails, fault) ==
  AfterWrite /\ AddDocuments(batch, modelFails, fault)

WriteClear(faultAt) == AfterWrite /\ ClearCollection(faultAt)

Next ==
  \/ \E batch \in Batches, modelFails \in BOOLEAN, fault \in BOOLEAN :
       WriteAdd(batch, modelFails, fault)
  \/ \E query \in Texts, k \in 0..MaxDocs, f \in Filters, modelFails \in BOOLEAN :
       SearchSimilar(query, k, f, modelFails)
  \/ \E faultAt \in {"none", "delete", "create"} : WriteClear(faultAt)

Spec == Init /\ [][Next]_vars

\* One add_documents, one clear_collection and one reading call, interleaved,
\* on a store that is empty or holds the two sample documents.
SampleDocs ==
  << [title |-> "react",    category |-> "Web Development"],
     [title |-> "postgres", category |-> "Database"] >>

InitConc ==
  /\ liveGen = 1
  /\ stored \in {<<>>, PreparedAt(SampleDocs, FALSE, 0)}
  /\ handle  = 1
  /\ ret     = NoRet
  /\ problems = <<>>
  /\ pc = IdlePc
  /\ adder = NoAdder
  /\ reader = NoReader
  /\ clearRet = "none"
  /\ writtenTo = 0
  /\ InitBackend

NextConc ==
  \/ \E batch \in Batches, modelFails \in BOOLEAN : AddStart(batch, modelFails)
  \/ AddLoad
  \/ \E fault \in BOOLEAN, byName \in BOOLEAN : AddCall(fault, byName)
  \/ \E fault \in BOOLEAN : ClearDelete(fault)
  \/ \E fault \in BOOLEAN : ClearCreate(fault)
  \/ \E op \in ReaderOps, query \in Texts : ReadStart(op, query)
  \/ ReadLoad
  \/ \E byName \in BOOLEAN : ReadQuery(byName)
  \/ \E byName \in BOOLEAN : ReadGet(byName)
  \/ \E byName \in BOOLEAN : ReadCount(byName)

SpecConc == InitConc /\ [][NextConc]_vars

\* The store behind the API layer: documents as the ingestion pipeline hands
\* them over (with a subreddit; one without the "category" key, one whose
\* category is None), and every reading call after every writing call.
RawDocInputs ==
  { [title |-> "react",    category |-> "Web Development", subreddit |-> "webdev"],
    [title |-> "postgres", category |-> "Database",        subreddit |-> "UXDesign"],
    [title |-> "docker",   category |-> Absent,            subreddit |-> "reactjs"],
    [title |-> "react",    category |-> None,              subreddit |-> "webdev"] }

RawBatches == UNION { [1..n -> RawDocInputs] : n \in 0..MaxBatch }

Queries       == {None, "", "react"}
ServerFilters == {None, "All", "Database"}
StoreFilters  == ServerFilters \cup {""}

\* The two readings of limit = 0 differ for limit = 0 only.
ZeroReadings(limit) == IF limit = 0 THEN BOOLEAN ELSE {FALSE}
Limits        == {-1, 0, 1, 2, DefaultLimit, BrowseCap + 1}

ServerAdd(batch, fault) == WriteAdd(batch, FALSE, fault)
ServerClear(faultAt)    == WriteClear(faultAt)

NextServer ==
  \/ \E batch \in RawBatches, fault \in BOOLEAN : ServerAdd(batch, fault)
  \/ \E faultAt \in {"none", "delete", "create"} : ServerClear(faultAt)
  \/ \E f \in StoreFilters : SearchSimilar("postgres", MaxDocs, f, FALSE)
  \/ \E query \in Queries, category \in ServerFilters, limit \in Limits :
       RagLive(query, category, limit, FALSE)
  \/ \E query \in Queries, category \in ServerFilters, limit \in Limits,
        tech_only \in BOOLEAN :
       \E zeroIsAll \in ZeroReadings(limit) :
         CleanLive(query, category, limit, tech_only, FALSE, zeroIsAll)
  \/ \E limit \in Limits, f \in StoreFilters, tech_only \in BOOLEAN :
       \E zeroIsAll \in ZeroReadings(limit) :
         GetAllDocuments(limit, f, tech_only, zeroIsAll)
  \/ GetAllCategories
  \/ GetStats

SpecServer == Init /\ [][NextServer]_vars

\* ----------------------------------------------------------- SpecCollect
\* _collect_and_process_data on the event loop.  The loop executes one
\* coroutine at a time (running) and takes up another one only when that one
\* has finished or is suspended at an await.

\* The invocation arrives: a request to /rag/start (which returns at once when
\* the pipeline is running, and otherwise starts the scheduler and sets
\* is_running), the interval trigger of the started scheduler, or a request
\* to /rag/manual-collection.
Invoke(t) ==
  /\ task[t] \in {"idle", "done"}
  /\ runs < MaxRuns
  /\ t = "start" => ~is_running
  /\ t = "scheduled" => is_running
  /\ task' = [task EXCEPT ![t] = "ready"]
  /\ is_running' = (is_running \/ t = "start")
  /\ runs' = runs + 1
  /\ UNCHANGED <<processing_lock, running, store, embed, db>>

\* "with self.processing_lock:" threading.Lock.acquire blocks the calling
\* thread, which is the thread of the event loop, until the lock is free.
Enter(t) ==
  /\ task[t] = "ready"
  /\ running = None
  /\ running' = t
  /\ IF processing_lock = None
       THEN /\ processing_lock' = t
            /\ task' = [task EXCEPT ![t] = "fetch"]
       ELSE /\ task' = [task EXCEPT ![t] = "blocked"]
            /\ UNCHANGED processing_lock
  /\ UNCHANGED <<is_running, runs, store, embed, db>>

\* lines 115-119: the session, the repository and
\* "reddit_problems = await self._fetch_reddit_data()"
Fetch(t) ==
  /\ task[t] = "fetch"
  /\ running = t
  /\ task' = [task EXCEPT ![t] = "process"]
  /\ running' = IF Suspends("fetch") THEN None ELSE t
  /\ UNCHANGED <<processing_lock, is_running, runs, store, embed, db>>

\* lines 121-160: the loop over reddit_problems, with its two awaits for
\* each problem.
Process(t) ==
  /\ task[t] = "process"
  /\ running \in {None, t}
  /\ task' = [task EXCEPT ![t] = "close"]
  /\ running' = IF /\ reddit_problems # <<>>
                   /\ Suspends("statement") \/ Suspends("category")
                  THEN None ELSE t
  /\ UNCHANGED <<processing_lock, is_running, runs, store, embed, db>>

\* lines 164-165 and the end of the with block: db.close(), the lock is
\* released, the coroutine returns.
Release(t) ==
  /\ task[t] = "close"
  /\ running \in {None, t}
  /\ processing_lock' = None
  /\ task' = [task EXCEPT ![t] = "done"]
  /\ running' = None
  /\ UNCHANGED <<is_running, runs, store, embed, db>>

CollectStep(t) == Enter(t) \/ Fetch(t) \/ Process(t) \/ Release(t)

NextCollect ==
  \E t \in Invokers :
    \/ Invoke(t)
    \/ Enter(t)
    \/ Fetch(t)
    \/ Process(t)
    \/ Release(t)

\* The loop runs its ready callbacks in the order they were queued: a
\* coroutine that is ready again and again is run.
SpecCollect ==
  /\ Init
  /\ [][NextCollect]_vars
  /\ \A t \in Invokers : SF_vars(CollectStep(t))

\* --------------------------------------------------------- SpecSolutions
\* The endpoints of controllers/solutions_controller.py.  Both are coroutines
\* without an await of their own, so each request is handled in one piece.

\* Reading or setting an attribute the ORM class does not map: the class
\* attribute Solution.solver_id and the instance attribute raise
\* AttributeError, the keyword argument of the constructor raises TypeError.
HasAttribute(name) == name \in SolutionColumns

\* SolutionRepository.get_solutions_by_problem_id
get_solutions_by_problem_id(problem_id) ==
  {s \in solutions : s.problem_id = problem_id}

\* SolutionRepository.get_solution_by_problem_and_user: the query raises
\* inside the try block, and None is returned
get_solution_by_problem_and_user(problem_id, user_id) ==
  IF HasAttribute("solver_id")
    THEN {s \in solutions : s.problem_id = problem_id /\ s.contributor_id = user_id}
    ELSE {}

NextSolutionId ==
  IF solutions = {} THEN 1
  ELSE 1 + (CHOOSE n \in {s.id : s \in solutions} :
              \A s \in solutions : s.id <= n)

Answer(op, user, id, status) ==
  [op |-> op, user |-> user, id |-> id, status |-> status]

claim_problem(problem_id, user) ==
  /\ UNCHANGED <<store, embed, rag>>
  /\ IF problem_id \notin FetchedIds
       THEN /\ response' = Answer("claim", user, problem_id, 404)
            /\ UNCHANGED <<fetched_problems, solutions>>
     ELSE IF /\ fetched_problems[problem_id].is_claimed
             /\ get_solutions_by_problem_id(problem_id) # {}
             /\ ~HasAttribute("solver_id")
       THEN /\ response' = Answer("claim", user, problem_id, 500)
            /\ UNCHANGED <<fetched_problems, solutions>>
     ELSE IF /\ fetched_problems[problem_id].is_claimed
             /\ \E s \in get_solutions_by_problem_id(problem_id) :
                  s.contributor_id # user
       THEN /\ response' = Answer("claim", user, problem_id, 400)
            /\ UNCHANGED <<fetched_problems, solutions>>
     ELSE IF get_solution_by_problem_and_user(problem_id, user) # {}
       THEN /\ response' = Answer("claim", user, problem_id, 200)
            /\ fetched_problems' =
                 [fetched_problems EXCEPT ![problem_id].is_claimed = TRUE]
            /\ UNCHANGED solutions
     ELSE IF ~HasAttribute("solver_id")
       THEN /\ response' = Answer("claim", user, problem_id, 500)
            /\ UNCHANGED <<fetched_problems, solutions>>
     ELSE /\ solutions' = solutions \cup
               {[id |-> NextSolutionId, problem_id |-> problem_id,
                 contributor_id |-> user]}
          /\ fetched_problems' =
               [fetched_problems EXCEPT ![problem_id].is_claimed = TRUE]
          /\ response' = Answer("claim", user, problem_id, 200)

delete_solution(solution_id, user) ==
  /\ UNCHANGED <<store, embed, rag>>
  /\ LET found == {s \in solutions : s.id = solution_id}
     IN  IF found = {}
           THEN /\ response' = Answer("delete", user, solution_id, 404)
                /\ UNCHANGED <<fetched_problems, solutions>>
         ELSE IF ~HasAttribute("solver_id")
           THEN /\ response' = Answer("delete", user, solution_id, 500)
                /\ UNCHANGED <<fetched_problems, solutions>>
         ELSE IF \E s \in found : s.contributor_id # user
           THEN /\ response' = Answer("delete", user, solution_id, 403)
                /\ UNCHANGED <<fetched_problems, solutions>>
         ELSE LET problem_id == (CHOOSE s \in found : TRUE).problem_id
                  remaining  == {s \in solutions :
                                   s.problem_id = problem_id} \ found
              IN  /\ solutions' = solutions \ found
                  /\ fetched_problems' =
                       IF remaining = {}
                         THEN [fetched_problems EXCEPT
                                 ![problem_id].is_claimed = FALSE]
                         ELSE fetched_problems
                  /\ response' = Answer("delete", user, solution_id, 200)

\* The tables as the service finds them: every problem is either unclaimed
\* and without a solution, or claimed and with the solution of one user.
Claimed(owner) ==
  [p \in FetchedIds |-> [is_claimed |-> owner[p] # 0]]

SolutionsOf(owner) ==
  {[id |-> p, problem_id |-> p, contributor_id |-> owner[p]] :
     p \in {q \in FetchedIds : owner[q] # 0}}

InitSolutions ==
  /\ liveGen = 1
  /\ stored  = <<>>
  /\ handle  = 1
  /\ ret     = NoRet
  /\ problems = <<>>
  /\ pc = IdlePc
  /\ adder = NoAdder
  /\ reader = NoReader
  /\ clearRet = "none"
  /\ writtenTo = 0
  /\ model = 0
  /\ constructed = 0
  /\ mpc = IdleMpc
  /\ cached = NoCached
  /\ processing_lock = None
  /\ task = IdleTask
  /\ running = None
  /\ is_running = FALSE
  /\ runs = 0
  /\ \E owner \in [FetchedIds -> {0} \cup Users] :
       /\ fetched_problems = Claimed(owner)
       /\ solutions = SolutionsOf(owner)
  /\ response = NoResponse

NextSolutions ==
  \/ \E problem_id \in FetchedIds \cup {MaxFetched + 1}, user \in Users :
       claim_problem(problem_id, user)
  \/ \E solution_id \in 1..(MaxFetched + 1), user \in Users :
       delete_solution(solution_id, user)

SpecSolutions == InitSolutions /\ [][NextSolutions]_vars

\* ------------------------------------------------------------ SpecBrowse
\* The API of clean_app on stores around the sizes its limits name: the
\* documents are those of three subreddits in turn, two of the allow-set and
\* one outside it.
BulkDoc(i) ==
  IF i % 3 = 1
    THEN [title |-> "react", category |-> "Web Development", subreddit |-> "webdev"]
    ELSE IF i % 3 = 2
      THEN [title |-> "docker", category |-> "DevOps", subreddit |-> "knitting"]
      ELSE [title |-> "postgres", category |-> "Database", subreddit |-> "sysadmin"]

BulkDocs(n) == [i \in 1..n |-> BulkDoc(i)]

BulkSizes == {1, DefaultLimit - 1, DefaultLimit, DefaultLimit + 1, 2 * DefaultLimit}

InitBrowse ==
  /\ liveGen = 1
  /\ stored \in {PreparedAt(BulkDocs(n), FALSE, 0) : n \in BulkSizes}
  /\ handle  = 1
  /\ ret     = NoRet
  /\ problems = <<>>
  /\ pc = IdlePc
  /\ adder = NoAdder
  /\ reader = NoReader
  /\ clearRet = "none"
  /\ writtenTo = 0
  /\ InitBackend

NextBrowse ==
  \/ \E query \in Queries, category \in ServerFilters, limit \in Limits,
        tech_only \in BOOLEAN :
       \E zeroIsAll \in ZeroReadings(limit) :
         CleanLive(query, category, limit, tech_only, FALSE, zeroIsAll)
  \/ \E limit \in Limits, f \in StoreFilters, tech_only \in BOOLEAN :
       \E zeroIsAll \in ZeroReadings(limit) :
         GetAllDocuments(limit, f, tech_only, zeroIsAll)
  \/ \E n \in 1..MaxBatch : ServerAdd(BulkDocs(n), FALSE)
  \/ ServerClear("none")

SpecBrowse == InitBrowse /\ [][NextBrowse]_vars

\* Documents with long texts: two titles that differ only in character 501,
\* a description that is longer than both of its caps, and the ways a summary
\* can be missing.
LongTitleX == Rep("a", TitleCap) \o "x"
LongTitleY == Rep("a", TitleCap) \o "y"
LongDescription ==
  Rep("d", EmbedDescCap) \o "p" \o Rep("d", DescriptionCap - EmbedDescCap - 1)
    \o "q"

TextDocInputs ==
  { [title |-> LongTitleX, ai_problem_statement |-> Absent, description |-> Absent],
    [title |-> LongTitleY, ai_problem_statement |-> Absent, description |-> Absent],
    [title |-> "react", ai_problem_statement |-> "debug react",
     description |-> LongDescription],
    [title |-> "react", ai_problem_statement |-> None, description |-> Absent],
    [title |-> "react", ai_problem_statement |-> "",   description |-> Absent] }

TextBatches == UNION { [1..n -> TextDocInputs] : n \in 0..MaxBatch }

NextText ==
  \/ \E batch \in TextBatches, fault \in BOOLEAN : AddDocuments(batch, FALSE, fault)
  \/ ClearCollection("none")

SpecText == Init /\ [][NextText]_vars

\* The legacy problems API: the rows problem_service.create writes.
NextProblems ==
  \E text \in Texts, modelFails \in BOOLEAN, ai_category \in LABELS :
    CreateProblem(text, modelFails, ai_category)

SpecProblems == Init /\ [][NextProblems]_vars

\* --------------------------------------------------------- SpecEmbedding
\* generate_embedding, statement by statement, on the threads of the pool.

\* generate_embedding is entered.
GenerateStart(t) ==
  /\ mpc[t] = "idle"
  /\ mpc' = [mpc EXCEPT ![t] = "check"]
  /\ cached' = [cached EXCEPT ![t] = 0]
  /\ UNCHANGED <<model, constructed, store, rag, db>>

\* _get_model: the test of line 10.
GetModelCheck(t) ==
  /\ mpc[t] = "check"
  /\ mpc' = [mpc EXCEPT ![t] = IF ModelUnloaded THEN "construct" ELSE "return"]
  /\ UNCHANGED <<model, constructed, cached, store, rag, db>>

\* _get_model: lines 12-18, the import and the constructor; an exception
\* leaves generate_embedding through its except clause, with [].
GetModelConstruct(t, fails) ==
  /\ mpc[t] = "construct"
  /\ IF fails
       THEN /\ mpc' = [mpc EXCEPT ![t] = "idle"]
            /\ UNCHANGED <<model, constructed>>
       ELSE /\ constructed' = constructed + 1
            /\ model' = constructed + 1
            /\ mpc' = [mpc EXCEPT ![t] = "return"]
  /\ UNCHANGED <<cached, store, rag, db>>

\* _get_model: "return _model".
GetModelReturn(t) ==
  /\ mpc[t] = "return"
  /\ cached' = [cached EXCEPT ![t] = model]
  /\ mpc' = [mpc EXCEPT ![t] = "encode"]
  /\ UNCHANGED <<model, constructed, store, rag, db>>

\* model.encode(text).tolist()
GenerateEncode(t) ==
  /\ mpc[t] = "encode"
  /\ mpc' = [mpc EXCEPT ![t] = "idle"]
  /\ UNCHANGED <<model, constructed, cached, store, rag, db>>

NextEmbedding ==
  \E t \in Callers :
    \/ GenerateStart(t)
    \/ GetModelCheck(t)
    \/ \E fails \in BOOLEAN : GetModelConstruct(t, fails)
    \/ GetModelReturn(t)
    \/ GenerateEncode(t)

SpecEmbedding == Init /\ [][NextEmbedding]_vars

\* ================================================================== claims

\* C1: add_documents is all-or-nothing.  A call that returns False (among them
\* every call with an empty batch and every call whose persistence call
\* raises) leaves the stored records, the collection and count() as they
\* were; a call that returns True has appended one record per document of the
\* batch, in order, after the records stored before.
StoredFrom(batch, recs) ==
  /\ Len(recs) = Len(batch)
  /\ \A i \in 1..Len(batch) :
       /\ recs[i].metadata.title = batch[i].title
       /\ recs[i].document = batch[i].title

C1_AddOutcome(batch, fault) ==
  /\ (batch = <<>> \/ fault) => ~ret'.ok
  /\ ~ret'.ok =>
       /\ stored' = stored
       /\ liveGen' = liveGen
       /\ Count(handle)' = Count(handle)
  /\ ret'.ok =>
       /\ Len(stored') = Len(stored) + Len(batch)
       /\ SubSeq(stored', 1, Len(stored)) = stored
       /\ StoredFrom(batch, SubSeq(stored', Len(stored) + 1, Len(stored')))
       /\ Count(handle)' = Count(handle) + Len(batch)

C1_AddAllOrNothing ==
  [][\A batch \in Batches, modelFails \in BOOLEAN, fault \in BOOLEAN :
       (ret'.op = "add" /\ ret'.k = Len(batch)
          /\ AddDocuments(batch, modelFails, fault))
         => C1_AddOutcome(batch, fault)]_vars

\* a non-empty store has just refused a batch
C1_Witness_FailedAdd ==
  /\ ret.op = "add" /\ ~ret.ok /\ ret.k = MaxBatch
  /\ Len(stored) > 0

\* C2: every stored document has one embedding whose length is the
\* dimensionality of the embedding model, on every insertion path: the
\* records add_documents stores and the rows problem_service.create stores,
\* the ones stored after the model failed included.
C2_ShapeInvariant ==
  /\ \A i \in 1..Len(stored)   : Dim(stored[i].embedding) = ModelDim
  /\ \A i \in 1..Len(problems) : Dim(problems[i].embedding) = ModelDim

\* C3: the embedding operation fails soft.  When the model throws it returns a
\* vector of ModelDim zeros for each input, in generate_embedding as in
\* generate_embeddings, and add_documents then still stores the whole batch
\* and returns True.
ZeroRecords(recs) ==
  \A i \in 1..Len(recs) : recs[i].embedding = ZeroVec(ModelDim)

C3_EmbeddingFailSoft ==
  [][/\ \A text \in Texts, ai_category \in LABELS :
          (ret'.op = "create" /\ CreateProblem(text, TRUE, ai_category))
            => ret'.q = ZeroVec(ModelDim)
     /\ \A batch \in Batches :
          (ret'.op = "add" /\ ret'.k = Len(batch) /\ batch # <<>>
             /\ ~PrepareRaises(batch) /\ Live(handle)
             /\ AddDocuments(batch, TRUE, FALSE))
            => /\ ret'.ok
               /\ Len(stored') = Len(stored) + Len(batch)
               /\ ZeroRecords(SubSeq(stored', Len(stored) + 1, Len(stored')))
    ]_vars

\* C4: a search with a category filter (not "All", not empty) returns only
\* documents whose stored category is the filter.
StoredById(id) == CHOOSE rec \in {stored[i] : i \in 1..Len(stored)} : rec.id = id

IsFilter(f) == f # None /\ f # "" /\ f # "All"

C4_FilterCorrect ==
  (ret.op = "search" /\ IsFilter(ret.filter)) =>
    \A n \in 1..Len(ret.out) :
      /\ \E i \in 1..Len(stored) : stored[i].id = ret.out[n].id
      /\ StoredById(ret.out[n].id).metadata.category = ret.filter
      /\ ret.out[n].category = ret.filter

\* a "Database" search on a store that also holds "Web Development" documents
C4_Witness_FilteredSearch ==
  /\ ret.op = "search" /\ ret.filter = "Database" /\ Len(ret.out) >= 1
  /\ \E i \in 1..Len(stored) : stored[i].metadata.category = "Web Development"

\* C5: a search returns min(k, m) results, m the number of stored documents
\* that match the filter; they are distinct matching documents in ascending
\* distance to the query vector (descending similarity_score), and no matching
\* document left out is strictly closer than one returned.
MatchesFilter(rec, f) == ~IsFilter(f) \/ rec.metadata.category = f

MatchCount(f) == Cardinality({i \in 1..Len(stored) : MatchesFilter(stored[i], f)})

OutIds == {ret.out[n].id : n \in 1..Len(ret.out)}

C5_TopK ==
  ret.op = "search" =>
    /\ Len(ret.out) = Min(ret.k, MatchCount(ret.filter))
    /\ Cardinality(OutIds) = Len(ret.out)
    /\ \A n \in 1..Len(ret.out) :
         /\ \E i \in 1..Len(stored) : stored[i].id = ret.out[n].id
         /\ MatchesFilter(StoredById(ret.out[n].id), ret.filter)
         /\ ret.out[n].similarity_score =
              One - Distance(ret.q, StoredById(ret.out[n].id).embedding)
    /\ \A n \in 1..(Len(ret.out) - 1) :
         ret.out[n].similarity_score >= ret.out[n + 1].similarity_score
    /\ \A i \in 1..Len(stored), n \in 1..Len(ret.out) :
         (MatchesFilter(stored[i], ret.filter) /\ stored[i].id \notin OutIds)
           => Distance(ret.q, stored[i].embedding)
                >= Distance(ret.q, StoredById(ret.out[n].id).embedding)

\* a search that had to leave out a matching document and to order two
\* results at different distances
C5_Witness_Truncated ==
  /\ ret.op = "search" /\ Len(ret.out) = 2
  /\ MatchCount(ret.filter) = MaxDocs
  /\ ret.out[1].similarity_score > ret.out[2].similarity_score

\* C6: every result carries similarity_score = 1 - distance with the distance
\* in [0, 1], so 0 <= similarity_score <= 1.
C6_ScoreRange ==
  ret.op = "search" =>
    \A n \in 1..Len(ret.out) :
      /\ ret.out[n].similarity_score >= 0
      /\ ret.out[n].similarity_score <= One

\* C7: on a store of three documents with different embeddings, a search with
\* k = 3, no filter and the query vector equal to the second document's
\* embedding returns that document first and the other two in order of
\* decreasing cosine similarity to the query.
Norm2(u) == Dot(u, u)

\* cosine similarity in units of 1/25; every vector of the model has norm 1
\* or 0, and the cosine with a zero vector counts as 0
Cosine(u, v) == IF Norm2(u) = 0 \/ Norm2(v) = 0 THEN 0 ELSE Dot(u, v)

C7_RankCorrect ==
  (/\ ret.op = "search" /\ ret.k = 3 /\ ~IsFilter(ret.filter)
   /\ Len(stored) = 3
   /\ ret.q = stored[2].embedding
   /\ stored[1].embedding # stored[2].embedding
   /\ stored[3].embedding # stored[2].embedding)
  => /\ Len(ret.out) = 3
     /\ ret.out[1].id = stored[2].id
     /\ Cosine(ret.q, StoredById(ret.out[2].id).embedding)
          >= Cosine(ret.q, StoredById(ret.out[3].id).embedding)

\* C8: clear_collection is idempotent.  A call during which the persistence
\* layer works leaves count() == 0, and when it follows another
\* clear_collection call it returns True.
C8_ClearIdempotent ==
  [][(ret'.op = "clear" /\ ClearCollection("none"))
       => /\ Count(handle)' = 0
          /\ ret.op = "clear" => ret'.ok]_vars

\* C9: a reader running concurrently with clear_collection never observes the
\* state between delete_collection and create_collection in which the
\* collection does not exist (get_stats reports no error, get_all_categories
\* reports categories of stored documents and not its failure default), and a
\* finished clear_collection never leaves the store without a collection.
DocCategories == {d.category : d \in DocInputs}

C9_ClearAtomicToReaders ==
  /\ (pc["read"] = "done" /\ reader.op = "stats") => ~reader.error
  /\ (pc["read"] = "done" /\ reader.op \in {"categories", "stats"})
        => reader.categories \subseteq DocCategories
  /\ pc["clear"] = "done" => liveGen # 0

\* C10: for one add_documents interleaved with one clear_collection that
\* succeeded, the final store is the outcome of a serial order: empty (add
\* first) or exactly the batch in an empty collection (clear first, add
\* returned True); and an add that returned True wrote to a collection that
\* existed when it wrote: if its batch is gone, the clear deleted it afterwards.
BothDone == pc["add"] = "done" /\ pc["clear"] = "done"

Ids(results) == {results[n].id : n \in 1..Len(results)}

\* the first instance of each id of a list, in the order of the list
FirstSeen(results) ==
  LET first == {n \in 1..Len(results) :
                  \A m \in 1..(n - 1) : results[m].id # results[n].id}
      order == Ascending(first)
  IN  [n \in 1..Len(order) |-> results[order[n]]]

\* C11: in sample (no-query) mode the union of the sub-query result lists is
\* de-duplicated by id before truncation: the returned list holds each id at
\* most once, holds the first-seen instance of each id in first-seen order,
\* and its length is the number of distinct ids of the union, capped at the
\* requested limit.
C11_SampleDedup ==
  (ret.op = "rag_live" /\ ~Truthy(ret.query) /\ ret.limit >= 0) =>
    LET all_results == SampleResults(Len(sample_queries), ret.category,
                                     ret.limit, ret.modelFails)
        out == ret.resp.results
    IN  /\ Cardinality(Ids(out)) = Len(out)
        /\ Len(out) = Min(Cardinality(Ids(all_results)), ret.limit)
        /\ out = SubSeq(FirstSeen(all_results), 1, Len(out))

\* C12: with an empty or absent query get_live_problems is in browse mode:
\* its results are those of get_all_documents with the same limit and
\* category filter, and every result carries the neutral similarity_score 1.0
\* instead of a score computed from a distance.
C12_BrowseOf(tech_only, zeroIsAll) ==
  /\ ret.resp.results =
       get_all_documents(handle, ret.limit, ret.category, tech_only, zeroIsAll)
  /\ \A n \in 1..Len(ret.resp.results) :
       ret.resp.results[n].similarity_score = One

C12_BrowseFallback ==
  /\ (ret.op = "clean_live" /\ ~Truthy(ret.query)) =>
        C12_BrowseOf(ret.tech_only, ret.zeroIsAll)
  /\ (ret.op = "rag_live" /\ ~Truthy(ret.query)) =>
        \E zeroIsAll \in BOOLEAN : C12_BrowseOf(FALSE, zeroIsAll)

\* C13: the grouping of a response is a pure regrouping of its ranked list:
\* `data` has one list per category that occurs, that list holds exactly the
\* results of the category in the order they have in the ranked list (so each
\* result is in exactly one list, the one of its own category), and
\* total_found is the sum of the lengths of the lists.
RECURSIVE SumLen(_, _)
SumLen(data, cats) ==
  IF cats = {} THEN 0
  ELSE LET c == CHOOSE x \in cats : TRUE
       IN  Len(data[c]) + SumLen(data, cats \ {c})

C13_GroupingIsRegrouping ==
  ret.op \in {"rag_live", "clean_live"} =>
    LET results == ret.resp.results
        data    == ret.resp.data
    IN  /\ DOMAIN data = {results[n].category : n \in 1..Len(results)}
        /\ \A c \in DOMAIN data :
             data[c] = SelectSeq(results, LAMBDA r : r.category = c)
        /\ ret.resp.total_found = SumLen(data, DOMAIN data)
        /\ ret.resp.total_found = Len(results)

\* C13 witness: a ranked list of three results in which the categories
\* alternate, grouped into two lists.
C13_Witness_Interleaved ==
  /\ ret.op \in {"rag_live", "clean_live"}
  /\ Len(ret.resp.results) = 3
  /\ ret.resp.results[1].category = ret.resp.results[3].category
  /\ ret.resp.results[1].category # ret.resp.results[2].category
  /\ Cardinality(DOMAIN ret.resp.data) = 2

\* C14: when the store fails (here: the collection is missing) a reading
\* method does not return what a successful empty result looks like:
\* search_similar and get_all_documents do not return the empty list that a
\* filter miss produces, get_all_categories does not return the empty set,
\* get_stats reports the error, and get_live_problems does not answer
\* "success".
StoreUnavailable == ~Live(handle)

C14_FailureDistinguishable ==
  StoreUnavailable =>
    /\ ret.op \in {"search", "get_all"} => ret.out # <<>>
    /\ ret.op = "categories" => ret.out # {}
    /\ ret.op = "stats" => ret.out.error
    /\ ret.op \in {"rag_live", "clean_live"} => ret.resp.status # "success"

\* C15: a category filter that matches no stored document gives a valid empty
\* result: search_similar and get_all_documents return the empty list, and
\* get_live_problems answers "success" with total_found = 0 and empty data.
FilterMiss(f) ==
  /\ f \notin {None, "", "All"}
  /\ \A i \in 1..Len(stored) : stored[i].metadata.category # f

C15_FilterMissIsEmpty ==
  /\ (ret.op \in {"search", "get_all"} /\ FilterMiss(ret.filter)) =>
        ret.out = <<>>
  /\ (ret.op \in {"rag_live", "clean_live"} /\ FilterMiss(ret.category)) =>
        /\ ret.resp.status = "success"
        /\ ret.resp.total_found = 0
        /\ DOMAIN ret.resp.data = {}

\* C15 witness: a browse of a working store that holds documents, none of
\* them in the category asked for.
C15_Witness_Miss ==
  /\ ret.op = "clean_live" /\ ~Truthy(ret.query) /\ ret.limit = DefaultLimit
  /\ ~ret.tech_only
  /\ Live(handle) /\ Len(stored) > 0
  /\ FilterMiss(ret.category)
  /\ ret.resp.total_found = 0

\* C16: in every reachable state the category stored for every document is a
\* non-null string; a document supplied without a category, or with its
\* category present but null, is stored with the sentinel "General Tech".
C16_CategoryNeverNull ==
  \A i \in 1..Len(stored) : stored[i].metadata.category \notin {None, Absent}

\* C17: document ids are unique for the lifetime of the collection: after any
\* sequence of add_documents calls, within one batch and across batches, no
\* two stored documents share an id, also when they were made from the same
\* input document.
C17_IdsUnique ==
  \A i, j \in 1..Len(stored) : i # j => stored[i].id # stored[j].id

\* C17 witness: the same input document stored by two calls, and a call that
\* stored two documents at once.
C17_Witness_TwoBatches ==
  /\ ret.op = "add" /\ ret.ok /\ ret.k = 2
  /\ Len(stored) = 3
  /\ stored[1].metadata = stored[3].metadata
  /\ stored[1].id # stored[3].id

\* C18: after any sequence of add_documents and clear_collection calls the
\* total_documents that get_stats reports is the number of documents of the
\* batches whose add returned True since the most recent successful clear.
\* Stated step by step: an add that returns True raises the reported total by
\* the size of its batch, a clear that returns True sets it to 0, and a call
\* that returns False or only reads leaves it as it was.
ReportedTotal == get_stats(handle).total_documents

C18_TotalTracksAdds ==
  [][ /\ ret'.op = "add" =>
           ReportedTotal' = ReportedTotal + (IF ret'.ok THEN ret'.k ELSE 0)
      /\ ret'.op = "clear" =>
           ReportedTotal' = (IF ret'.ok THEN 0 ELSE ReportedTotal)
      /\ ret'.op \in ReadOps => ReportedTotal' = ReportedTotal
      /\ ret'.op = "stats" => ret'.out.total_documents = ReportedTotal ]_vars

\* C19: for a store of at most 1000 documents get_all_categories returns
\* exactly the distinct category values of the documents stored at the time:
\* each once, none missing, none that no stored document has; the empty set
\* after a clear, and also when the underlying read fails.
StoredCategories ==
  {stored[i].metadata.category : i \in 1..Len(stored)} \ {None}

C19_CategoriesExact ==
  (ret.op = "categories" /\ Len(stored) <= SampleLimit) =>
     ret.out = StoredCategories

\* C20: get_all_documents(limit, category_filter, tech_only) returns at most
\* `limit` documents, each of them in the category asked for (when one is
\* given and it is not "All") and each from a tech subreddit (when tech_only
\* is set).
C20_BrowseBounded ==
  ret.op = "get_all" =>
    /\ ret.limit >= 0 => Len(ret.out) <= ret.limit
    /\ \A n \in 1..Len(ret.out) :
         /\ ret.filter \notin {None, "", "All"} =>
              ret.out[n].category = ret.filter
         /\ ret.tech_only =>
              Lower(ret.out[n].subreddit) \in server_tech_subreddits

\* ------------------------------------------------------------ long texts
\* C21: truncation affects only the stored copy.  For every document of a
\* batch that was stored, the embedding is that of the full title, the summary
\* and the first 200 characters of the description, while the stored metadata
\* holds the first 500 characters of the title and of the description; two
\* documents that differ only after character 500 of the title get different
\* embeddings and equal stored titles.
IsPrefix(short, long) ==
  Len(short) <= Len(long) /\ SubSeq(long, 1, Len(short)) = short

C21_Stored(batch, i, r) ==
  LET d    == batch[i]
      desc == DictGet(d, "description", "")
  IN  /\ IsPrefix(r.metadata.title, d.title)
      /\ Len(r.metadata.title) = Min(TitleCap, Len(d.title))
      /\ IsPrefix(r.metadata.description, desc)
      /\ Len(r.metadata.description) = Min(DescriptionCap, Len(desc))
      /\ r.embedding =
           Encode(d.title \o " " \o DictGet(d, "ai_problem_statement", "")
                    \o " " \o Slice(desc, EmbedDescCap))

C21_TruncationOnlyStored ==
  [][ \A batch \in TextBatches :
        (AddDocuments(batch, FALSE, FALSE) /\ ret'.ok) =>
          \A i, j \in 1..Len(batch) :
            LET ri == stored'[Len(stored) + i]
                rj == stored'[Len(stored) + j]
            IN  /\ C21_Stored(batch, i, ri)
                /\ ( /\ batch[i].title # batch[j].title
                     /\ Slice(batch[i].title, TitleCap)
                          = Slice(batch[j].title, TitleCap)
                     /\ [batch[i] EXCEPT !.title = ""]
                          = [batch[j] EXCEPT !.title = ""] )
                   => /\ ri.embedding # rj.embedding
                      /\ ri.metadata.title = rj.metadata.title ]_vars

\* C21 witness: two stored documents with the same stored title of 500
\* characters and different embeddings, and a stored description cut to 500.
C21_Witness_LongTitles ==
  /\ ret.op = "add" /\ ret.ok
  /\ Len(stored) = 3
  /\ Len(stored[1].metadata.title) = TitleCap
  /\ stored[1].metadata.title = stored[2].metadata.title
  /\ stored[1].embedding # stored[2].embedding
  /\ Len(stored[3].metadata.description) = DescriptionCap

\* C22: the display text stored for a document is its summary
\* (ai_problem_statement) when it has one and its title otherwise: a document
\* with no summary, a null summary or an empty summary is stored with its
\* title as display text, and a document with a summary is stored.
HasSummary(doc) ==
  DictGet(doc, "ai_problem_statement", None) \notin {None, ""}

C22_DisplayText ==
  [][ \A batch \in TextBatches \ {<<>>} :
        AddDocuments(batch, FALSE, FALSE) =>
          /\ ret'.ok
          /\ \A i \in 1..Len(batch) :
               stored'[Len(stored) + i].document =
                 (IF HasSummary(batch[i])
                    THEN batch[i].ai_problem_statement
                    ELSE batch[i].title) ]_vars

\* C23: once a document is stored, its id and its embedding never change
\* while it remains in the collection: search_similar, get_all_documents,
\* get_all_categories, get_stats and get_live_problems leave the whole store
\* as it is, and a later add_documents leaves every document stored before it
\* (id, embedding, metadata, display text) as it is.
C23_StoredImmutable ==
  [][ /\ ret'.op \in ReadOps =>
           /\ stored' = stored
           /\ liveGen' = liveGen
           /\ handle' = handle
      /\ ret'.op = "add" =>
           /\ Len(stored') >= Len(stored)
           /\ SubSeq(stored', 1, Len(stored)) = stored ]_vars

\* C23 witness: an add that put one document behind two stored earlier.
C23_Witness_LaterAdd ==
  /\ ret.op = "add" /\ ret.ok /\ ret.k = 1
  /\ Len(stored) = 3
  /\ stored[1].embedding # stored[3].embedding

\* C24: the embedding model is initialised at most once per process: after
\* any number of calls to generate_embedding, among them calls that start
\* together while the model is still unloaded, the constructor has produced
\* one instance and every call uses that single cached instance.
C24_ModelLoadedOnce ==
  /\ constructed <= 1
  /\ \A t \in Callers : cached[t] # 0 => cached[t] = 1

\* C25: the category filters "All", None and "" all mean "no filter": for
\* every store, query and k, search_similar returns the same list for each of
\* the three, and that list is the unfiltered search, the k nearest of all
\* stored documents; likewise get_all_documents returns the same list for
\* each of the three, the first `limit` of all stored documents.
NoFilter == {None, "", "All"}

AllStored == 1..Len(stored)

C25_NoFilterAlike ==
  /\ (ret.op = "search" /\ ret.filter \in NoFilter) =>
        /\ \A f \in NoFilter :
             search_similar(handle, ret.q, ret.k, f) = ret.out
        /\ ret.out # <<>> =>
             LET all == TopK(ret.q, ret.k, AllStored)
             IN  /\ Len(ret.out) = Len(all)
                 /\ \A n \in 1..Len(all) : ret.out[n].id = stored[all[n]].id
  /\ (ret.op = "get_all" /\ ret.filter \in NoFilter) =>
        /\ \A f \in NoFilter :
             get_all_documents(handle, ret.limit, f, ret.tech_only,
                               ret.zeroIsAll) = ret.out
        /\ (~ret.tech_only /\ ret.limit > 0 /\ Live(handle)) =>
             /\ Len(ret.out) = Min(ret.limit, Len(stored))
             /\ \A n \in 1..Len(ret.out) : ret.out[n].id = stored[n].id

\* C25 witness: a search with the filter "" on a store that holds documents of
\* two categories returned all of them.
C25_Witness_EmptyFilter ==
  /\ ret.op = "search" /\ ret.filter = ""
  /\ Len(ret.out) = 3
  /\ \E n, m \in 1..3 : ret.out[n].category # ret.out[m].category

\* C26: with tech_only, get_all_documents keeps a retrieved document exactly
\* when its subreddit is a member of the tech allow-set: a document from any
\* subreddit the set lists (among them 'UXDesign', 'SaaS', 'SideProject',
\* 'Entrepreneur', 'webdev') is kept, every other document is dropped.
C26_TechOnlyMembership ==
  (/\ ret.op = "get_all" /\ ret.tech_only
   /\ ret.filter \in NoFilter
   /\ ret.limit >= Len(stored) /\ ret.limit > 0
   /\ Live(handle)) =>
     Ids(ret.out) =
       {stored[i].id : i \in {j \in AllStored :
                                stored[j].metadata.subreddit \in tech_subreddits}}

\* C27: in browse mode with the default limit (20) the response shows up to
\* 100 problems: total_found is the smaller of 100 and the number of stored
\* documents that match the category filter and the tech filter.
BrowseMatchCount(category, tech_only) ==
  Cardinality({i \in AllStored :
                 /\ MatchesFilter(stored[i], category)
                 /\ tech_only => stored[i].metadata.subreddit \in tech_subreddits})

C27_BrowseShowsUpTo100 ==
  (/\ ret.op = "clean_live" /\ ~Truthy(ret.query)
   /\ ret.limit = DefaultLimit
   /\ Live(handle)) =>
     ret.resp.total_found = Min(BrowseCap, BrowseMatchCount(ret.category, ret.tech_only))

\* C28: in the sample (no-query) mode of rag_server.get_live_problems the
\* number of returned results never exceeds the requested limit, for every
\* limit >= 0, 0 included.
C28_SampleWithinLimit ==
  (ret.op = "rag_live" /\ ~Truthy(ret.query) /\ ret.limit >= 0) =>
    /\ Len(ret.resp.results) <= ret.limit
    /\ ret.resp.total_found <= ret.limit

\* C29: every invocation of _collect_and_process_data eventually returns and
\* releases processing_lock, also when a second invocation (a manual
\* collection or a scheduled run) arrives on the same event loop while the
\* first one is inside the locked section: no invocation waits for the lock
\* for ever.
C29_CollectReturns ==
  \A t \in Invokers :
    (task[t] = "ready") ~> (task[t] = "done" /\ processing_lock # t)

\* C29 witness: one cycle has returned, the scheduled one is inside the locked
\* section and a manual one has arrived behind it.
C29_Witness_Queued ==
  /\ task["start"] = "done"
  /\ processing_lock = "scheduled" /\ task["scheduled"] = "process"
  /\ task["manual"] = "ready"

====
